---- MODULE Spec2Model ----
(***************************************************************************)
(* Model of the query-to-result pipeline of the LLM Maps Finder gateway:   *)
(*   src/app/services/llm_service.py   LLMService.extract_location_intent  *)
(*   src/app/services/maps_service.py  GoogleMapsService.search_places,    *)
(*                                     get_directions                      *)
(*   src/app/main.py                   search_locations, get_directions    *)
(*                                                                         *)
(* One request is processed at a time (requests share no mutable state).   *)
(* A request is a short pipeline whose steps are separated by the awaited  *)
(* provider calls; each action below is one such step, the provider's      *)
(* outcome being the action's input.                                       *)
(*                                                                         *)
(* Conventions.                                                            *)
(*  - Optional[T]: None is <<>>, a present value v is <<v>>.               *)
(*  - A text (str) built by an f-string is the sequence of its pieces, so  *)
(*    "text t contains s" is "s is one of t's pieces".                     *)
(*  - Coordinates are integers counted in 1/60 degree, so that the mean of *)
(*    up to MAX_LOCATIONS_RETURNED coordinates is an exact integer.        *)
(***************************************************************************)
EXTENDS Integers, Sequences, FiniteSets, TLC

VARIABLES
    pc,                 \* position of the request handler
    query,              \* LocationQuery.query
    user_location,      \* LocationQuery.user_location (Optional dict)
    extracted_info,     \* Optional: what extract_location_intent returned
    llm_reply,          \* Optional: the language-model outcome it saw
    extract_branch,     \* which return statement of the extractor ran
    places_reply,       \* Optional: the place-search provider outcome
    returned_locations, \* Optional: what search_places returned
    dreq,               \* Optional: the DirectionsRequest
    directions_reply,   \* Optional: the directions provider outcome
    svc_exc,            \* Optional: exception a service method raised to main
    calls,              \* provider calls issued so far, in order
    http_status,        \* 0 while processing, then 200 or 500
    detail,             \* HTTPException detail text (500)
    search_response,    \* Optional LocationResponse (200 on /search)
    directions_response \* Optional DirectionsResponse (200 on /directions)

vars == <<pc, query, user_location, extracted_info, llm_reply, extract_branch,
          places_reply,
          returned_locations, dreq, directions_reply, svc_exc, calls,
          http_status, detail, search_response, directions_response>>

----------------------------------------------------------------------------
(* Bounds of the model *)

\* longest raw result list a place-search reply carries
MaxResults == 6
\* longest raw route list a directions reply carries
MaxRoutes == 2

----------------------------------------------------------------------------
(* Optional values and texts *)

None == <<>>
Some(v) == <<v>>
IsSome(o) == Len(o) = 1
Val(o) == o[1]

\* "s in text" for a text given by its pieces
Contains(text, s) == \E i \in 1..Len(text) : text[i] = s

\* coordinates: d degrees in the model's unit
Deg(d) == d * 60

----------------------------------------------------------------------------
(* Configuration: src/app/config.py *)

GOOGLE_MAPS_API_KEY == "AIza-secret-key"
MAX_LOCATIONS_RETURNED == 5
MAPS_SEARCH_RADIUS == 50000

----------------------------------------------------------------------------
(* Python values *)

\* Dict[str, float] over the keys lat, lng: keys present and their values
\* (0 for a key that is not present).
CoordDict(ks, la, ln) == [keys |-> ks, lat |-> la, lng |-> ln]

\* Truthiness of an Optional dict: None and {} are falsy.
Truthy(od) == IsSome(od) /\ Val(od).keys # {}

\* An exception: its class and str(e).
Exc(t, s) == [type |-> t, text |-> s]

\* d[k] on a coordinate dict: the value, or KeyError(k) whose str is 'k'.
HasKey(d, k) == k \in d.keys
KeyError(k) == Exc("KeyError", <<"'", k, "'">>)

----------------------------------------------------------------------------
(* JSON values decoded from the language model's message content *)

RequiredFields == <<"search_term", "location", "query_type", "formatted_query">>
RequiredSet == {RequiredFields[i] : i \in 1..Len(RequiredFields)}
AllKeys == RequiredSet \cup {"error"}

\* A decoded JSON value: its shape, the names it "holds" in the sense of
\* Python's `in` (keys of an object, elements of an array, substrings of a
\* string) and, for an object, the text under each key (<<>> if not a key).
NoVals == [k \in AllKeys |-> <<>>]
JObject(valf) == [shape |-> "object",
                  names |-> {k \in AllKeys : valf[k] # <<>>},
                  val |-> valf]
JArray(elems) == [shape |-> "array", names |-> elems, val |-> NoVals]
JString(subs) == [shape |-> "string", names |-> subs, val |-> NoVals]
JNumber == [shape |-> "number", names |-> {}, val |-> NoVals]
JNull == [shape |-> "null", names |-> {}, val |-> NoVals]

\* the texts the model's replies put under each key
ReplyText(k) ==
    CASE k = "search_term" -> <<"coffee shop">>
      [] k = "location" -> <<"Taipei 101">>
      [] k = "query_type" -> <<"search">>
      [] k = "formatted_query" -> <<"coffee shop Taipei 101">>
      [] k = "error" -> <<"model said so">>

ObjectWith(ks) == JObject([k \in AllKeys |-> IF k \in ks THEN ReplyText(k) ELSE <<>>])

----------------------------------------------------------------------------
(* LLMService.extract_location_intent: src/app/services/llm_service.py *)

\* Outcomes of the chat call, as the code distinguishes them.
\*   transport        client.post raises (connection refused, timeout, ...)
\*   http_status      raise_for_status() raises on a non-2xx status
\*   body_not_json    response.json() raises json.JSONDecodeError
\*   no_message       result["message"]["content"] raises KeyError
\*   content_not_json json.loads(message_content) raises json.JSONDecodeError
\*   content_json     json.loads returns the value `content`
LLMOutcome(k, t, c) == [kind |-> k, text |-> t, content |-> c]

LLMContents ==
    {ObjectWith(ks) : ks \in {RequiredSet, AllKeys, RequiredSet \ {"query_type"},
                              RequiredSet \ {"formatted_query"}, {"error"}, {}}}
    \cup {JArray(RequiredSet), JArray({"search_term"}), JArray({})}
    \cup {JString(RequiredSet), JString({"location"}), JString({})}
    \cup {JNumber, JNull}

LLMOutcomes ==
    {LLMOutcome("transport", <<"All connection attempts failed">>, JNull),
     LLMOutcome("transport", <<"timed out">>, JNull),
     LLMOutcome("http_status", <<"Server error '500 Internal Server Error'">>, JNull),
     LLMOutcome("body_not_json", <<"Expecting value: line 1 column 1 (char 0)">>, JNull),
     LLMOutcome("no_message", <<"'message'">>, JNull),
     LLMOutcome("content_not_json", <<"Expecting value: line 1 column 1 (char 0)">>, JNull)}
    \cup {LLMOutcome("content_json", <<>>, c) : c \in LLMContents}

\* The two fallback returns (lines 64-70 and 72-78).
Fallback(user_query, prefix, etext) ==
    JObject([k \in AllKeys |->
        CASE k = "search_term" -> <<user_query>>
          [] k = "location" -> <<"near me">>
          [] k = "query_type" -> <<"search">>
          [] k = "formatted_query" -> <<user_query>>
          [] k = "error" -> <<prefix>> \o etext])

\* `field in extracted_data` (line 57): defined for dict, list and str, a
\* TypeError for int, float, bool and None.
SupportsIn(v) == v.shape \in {"object", "array", "string"}
In(field, v) == field \in v.names

\* all(field in extracted_data for field in required_fields), line 57
AllRequiredPresent(v) == \A i \in 1..Len(RequiredFields) : In(RequiredFields[i], v)

\* The return statement taken for an outcome: "returned" is line 60,
\* "json_fallback" the except json.JSONDecodeError branch, "exc_fallback" the
\* except Exception branch.
ExtractBranch(o) ==
    IF o.kind \in {"transport", "http_status", "no_message"} THEN "exc_fallback"
    ELSE IF o.kind \in {"body_not_json", "content_not_json"} THEN "json_fallback"
    ELSE IF ~SupportsIn(o.content) THEN "exc_fallback"
    ELSE IF ~AllRequiredPresent(o.content) THEN "exc_fallback"
    ELSE "returned"

\* str(e) of the exception the try block raised
ExtractErrorText(o) ==
    IF o.kind # "content_json" THEN o.text
    ELSE IF ~SupportsIn(o.content)
         THEN <<"argument of type '", o.content.shape, "' is not iterable">>
         ELSE <<"Missing required fields in LLM response">>

ExtractLocationIntent(user_query, o) ==
    LET b == ExtractBranch(o) IN
    IF b = "returned" THEN o.content
    ELSE IF b = "json_fallback"
         THEN Fallback(user_query, "JSON parsing error: ", ExtractErrorText(o))
         ELSE Fallback(user_query, "LLM service error: ", ExtractErrorText(o))

----------------------------------------------------------------------------
(* Provider errors raised by the HTTP client (httpx) *)

\* The request URL with its query string, as the client sends it: the key
\* is one of the query parameters (maps_service.py lines 20 and 141).
RequestUrl(endpoint, q) ==
    <<"https://maps.googleapis.com/maps/api", endpoint, "?q=">> \o q
        \o <<"&key=", GOOGLE_MAPS_API_KEY>>

\* str(e) of the exception the HTTP client raises.  raise_for_status() names
\* the status and the request URL; a transport error (names_url says which)
\* may or may not name the URL; a body that is not JSON gives the decoder's
\* message.
ClientErrorText(kind, names_url, url) ==
    IF kind = "http_status"
    THEN <<"Client error '403 Forbidden' for url '">> \o url \o <<"'">>
    ELSE IF kind = "transport"
         THEN IF names_url THEN <<"Request failed for url '">> \o url \o <<"'">>
                           ELSE <<"All connection attempts failed">>
         ELSE <<"Expecting value: line 1 column 1 (char 0)">>

----------------------------------------------------------------------------
(* GoogleMapsService.search_places: src/app/services/maps_service.py *)

\* A raw result of the text search.  geometry: whether geometry.location
\* with lat and lng is there; place_id and name: Optional texts.
RawResult(g, la, ln, pid, nm) ==
    [geometry |-> g, lat |-> la, lng |-> ln, place_id |-> pid, name |-> nm]

PlaceNames == <<"Cafe A", "Bar B", "Diner C">>

\* the j-th well-formed place of the provider: every third has no place_id,
\* every fourth no name; coordinates differ between neighbours
Place(j) ==
    RawResult(TRUE, Deg((j * 2) % 3), Deg(((j * 3) % 7) - 2),
              IF j % 3 = 0 THEN None ELSE Some(<<"pid", PlaceNames[(j % 3) + 1]>>),
              IF j % 4 = 0 THEN None ELSE Some(PlaceNames[(j % 3) + 1]))

\* a result without geometry
MalformedResult == RawResult(FALSE, 0, 0, Some(<<"pid", "broken">>), Some("Broken"))

\* raw result lists of length n: places off+1 .. off+n in that order, the
\* m-th (if m > 0) replaced by a result without geometry
RawResultLists ==
    {[i \in 1..n |-> IF i = m THEN MalformedResult ELSE Place(i + off)] :
        <<n, m, off>> \in {t \in (0..MaxResults) \X (0..MaxResults) \X (0..1) :
                              t[2] <= t[1]}}

\* Outcomes of the text-search call:
\*   transport, http_status, body_not_json   the client raises (see above)
\*   no_status       data["status"] raises KeyError
\*   status          data["status"] is `status`, data.get("results", []) is
\*                   `results`
PlacesOutcome(k, nu, st, rs) ==
    [kind |-> k, names_url |-> nu, status |-> st, results |-> rs]

PlacesOutcomes ==
    {PlacesOutcome(k, nu, "", <<>>) :
        <<k, nu>> \in {<<"transport", TRUE>>, <<"transport", FALSE>>,
                       <<"http_status", TRUE>>, <<"body_not_json", FALSE>>,
                       <<"no_status", FALSE>>}}
    \cup {PlacesOutcome("status", FALSE, st, <<>>) :
            st \in {"ZERO_RESULTS", "REQUEST_DENIED"}}
    \cup {PlacesOutcome("status", FALSE, "OK", rs) : rs \in RawResultLists}

\* the (Haversine) distance of _calculate_distance, lines 117-131, kept as
\* the term of its arguments: no claim depends on its value
CalculateDistance(lat1, lng1, lat2, lng2) ==
    [R |-> 6371000, from |-> <<lat1, lng1>>, to |-> <<lat2, lng2>>]

\* _generate_maps_url, lines 81-86: by place id when it is not empty,
\* else by coordinates at zoom 15
GenerateMapsUrl(place_id, lat, lng) ==
    IF place_id # <<>>
    THEN [form |-> "https://www.google.com/maps/place/?q=place_id:",
          place_id |-> place_id, at |-> <<>>, zoom |-> 0]
    ELSE [form |-> "https://www.google.com/maps/@",
          place_id |-> <<>>, at |-> <<lat, lng>>, zoom |-> 15]

\* place.get(key, default) on an Optional field
GetOr(o, default) == IF IsSome(o) THEN Val(o) ELSE default

\* `if user_location:` of lines 25 and 50
UserLocationGiven(ul) == Truthy(ul)

\* the distance of lines 48-54
DistanceOf(ul, place_lat, place_lng) ==
    IF UserLocationGiven(ul)
    THEN Some(CalculateDistance(Val(ul).lat, Val(ul).lng, place_lat, place_lng))
    ELSE None

\* LocationInfo(...) of lines 56-74 (rating, opening_hours, phone_number,
\* website and price_level are copied from the result with place.get and are
\* left out)
LocationInfo(place, ul) ==
    [name |-> GetOr(place.name, "Unknown"),
     place_id |-> GetOr(place.place_id, <<>>),
     lat |-> place.lat,
     lng |-> place.lng,
     distance |-> DistanceOf(ul, place.lat, place.lng),
     maps_url |-> GenerateMapsUrl(GetOr(place.place_id, <<>>), place.lat, place.lng)]

\* a slip that cuts one result short of the configured maximum
Truncate_OneShort(results) ==
    SubSeq(results, 1, IF Len(results) < MAX_LOCATIONS_RETURNED - 1
                       THEN Len(results)
                       ELSE MAX_LOCATIONS_RETURNED - 1)

\* data.get("results", [])[:settings.MAX_LOCATIONS_RETURNED], line 44
Truncate(results) == SubSeq(results, 1, IF Len(results) < MAX_LOCATIONS_RETURNED
                                        THEN Len(results)
                                        ELSE MAX_LOCATIONS_RETURNED)

\* the loop of lines 44-74 over the results it is given, result by result
ProcessResults(results, ul) == [i \in 1..Len(results) |-> LocationInfo(results[i], ul)]

\* lines 25-27: the exception, if any, raised while the parameters are built
\* (before the try block, so it leaves search_places as it is)
SearchPlacesParamsError(ul) ==
    IF ~UserLocationGiven(ul) THEN None
    ELSE IF ~HasKey(Val(ul), "lat") THEN Some(KeyError("lat"))
    ELSE IF ~HasKey(Val(ul), "lng") THEN Some(KeyError("lng"))
    ELSE None

\* a slip that takes the provider's zero-results status for an empty result
\* list instead of raising
SearchPlacesInnerError_ZeroResultsEmpty(url, o) ==
    IF o.kind \in {"transport", "http_status", "body_not_json"}
    THEN ClientErrorText(o.kind, o.names_url, url)
    ELSE IF o.kind = "no_status" THEN KeyError("status").text
    ELSE IF o.status \notin {"OK", "ZERO_RESULTS"}
         THEN <<"Google Places API error: ", o.status>>
    ELSE IF \E i \in 1..Len(Truncate(o.results)) : ~Truncate(o.results)[i].geometry
         THEN KeyError("geometry").text
         ELSE <<>>

\* str(e) of what the try block of lines 31-76 raises; <<>> if it returns
SearchPlacesInnerError(url, o) ==
    IF o.kind \in {"transport", "http_status", "body_not_json"}
    THEN ClientErrorText(o.kind, o.names_url, url)
    ELSE IF o.kind = "no_status" THEN KeyError("status").text
    ELSE IF o.status # "OK" THEN <<"Google Places API error: ", o.status>>
    ELSE IF \E i \in 1..Len(Truncate(o.results)) : ~Truncate(o.results)[i].geometry
         THEN KeyError("geometry").text
         ELSE <<>>

\* search_places after the provider answered: the exception of line 79, or
\* the locations of line 76
SearchPlaces(q, ul, o) ==
    LET e == SearchPlacesInnerError(RequestUrl("/place/textsearch/json", q), o) IN
    IF e # <<>>
    THEN [exc |-> Some(Exc("Exception", <<"Error searching places: ">> \o e)),
          locations |-> None]
    ELSE [exc |-> None,
          locations |-> Some(ProcessResults(Truncate(o.results), ul))]

----------------------------------------------------------------------------
(* search_locations: src/app/main.py, lines 69-116 *)

RECURSIVE SumOf(_, _)
\* sum(loc.<field> for loc in locations), left to right
SumOf(locations, field) ==
    IF locations = <<>> THEN 0
    ELSE locations[1][field] + SumOf(Tail(locations), field)

\* str(len(locations))
Digits == <<"1", "2", "3", "4", "5", "6", "7", "8", "9">>
StrOfLen(n) == IF n = 0 THEN "0" ELSE Digits[n]

\* lines 84-91
MapCenter(locations, ul) ==
    IF locations # <<>>
    THEN Some(CoordDict({"lat", "lng"},
                        SumOf(locations, "lat") \div Len(locations),
                        SumOf(locations, "lng") \div Len(locations)))
    ELSE IF Truthy(ul) THEN ul
    ELSE None

\* a slip that reports the search radius on the empty response too
LocationResponse_RadiusAlways(locations, info, ul) ==
    [success |-> locations # <<>>,
     message |-> <<"Found ", StrOfLen(Len(locations)), " location(s)">>,
     locations |-> locations,
     extracted_info |-> info,
     map_center |-> MapCenter(locations, ul),
     search_radius |-> Some(MAPS_SEARCH_RADIUS)]

\* lines 93-109
LocationResponse(locations, info, ul) ==
    IF locations = <<>>
    THEN [success |-> FALSE,
          message |-> <<"No locations found for your query">>,
          locations |-> <<>>,
          extracted_info |-> info,
          map_center |-> MapCenter(locations, ul),
          search_radius |-> None]
    ELSE [success |-> TRUE,
          message |-> <<"Found ", StrOfLen(Len(locations)), " location(s)">>,
          locations |-> locations,
          extracted_info |-> info,
          map_center |-> MapCenter(locations, ul),
          search_radius |-> Some(MAPS_SEARCH_RADIUS)]

\* extracted_info.get("formatted_query", query.query), line 77: only a dict
\* has .get
HasGet(v) == v.shape = "object"
FormattedQuery(info, q) ==
    IF In("formatted_query", info) THEN info.val["formatted_query"] ELSE <<q>>
NoGetError(v) ==
    Exc("AttributeError", <<"'", v.shape, "' object has no attribute 'get'">>)

\* the detail of the HTTPException of lines 113-116
SearchErrorDetail(e) == <<"Error processing your request: ">> \o e.text

----------------------------------------------------------------------------
(* GoogleMapsService.get_directions: src/app/services/maps_service.py *)

\* DirectionsRequest (models.py lines 22-25): origin is any Dict[str, float],
\* travel_mode an Optional str.
DirectionsRequest(o, d, m) == [origin |-> o, destination |-> d, travel_mode |-> m]

\* a leg with Optional duration.text and distance.text
Leg(du, di) == [duration |-> du, distance |-> di]
\* a raw route: whether it has the key legs, and its legs
Route(h, ls) == [has_legs |-> h, legs |-> ls]

Routes ==
    {Route(TRUE, <<Leg(Some("5 mins"), Some("1.2 km"))>>),
     Route(TRUE, <<Leg(Some("9 mins"), Some("3 km")), Leg(Some("1 min"), Some("80 m"))>>),
     Route(TRUE, <<>>),
     Route(FALSE, <<>>),
     Route(TRUE, <<Leg(None, Some("3 km"))>>)}

RouteLists == UNION {[1..n -> Routes] : n \in 0..MaxRoutes}

\* Outcomes of the directions call: as for the text search; for kind
\* "status", has_routes says whether data has the key routes.
DirectionsOutcome(k, nu, st, hr, rs) ==
    [kind |-> k, names_url |-> nu, status |-> st, has_routes |-> hr, routes |-> rs]

DirectionsOutcomes ==
    {DirectionsOutcome(k, nu, "", FALSE, <<>>) :
        <<k, nu>> \in {<<"transport", TRUE>>, <<"transport", FALSE>>,
                       <<"http_status", TRUE>>, <<"body_not_json", FALSE>>,
                       <<"no_status", FALSE>>}}
    \cup {DirectionsOutcome("status", FALSE, st, FALSE, <<>>) :
            st \in {"NOT_FOUND", "ZERO_RESULTS"}}
    \cup {DirectionsOutcome("status", FALSE, "OK", FALSE, <<>>)}
    \cup {DirectionsOutcome("status", FALSE, "OK", TRUE, rs) : rs \in RouteLists}

DirectionsResponse(s, m, r, du, di) ==
    [success |-> s, message |-> m, routes |-> r, duration |-> du, distance |-> di]

\* lines 137-142: the exception, if any, raised while the parameters are
\* built (before the try block, so it leaves get_directions as it is)
DirectionsParamsError(req) ==
    IF ~HasKey(req.origin, "lat") THEN Some(KeyError("lat"))
    ELSE IF ~HasKey(req.origin, "lng") THEN Some(KeyError("lng"))
    ELSE IF req.travel_mode = None
         THEN Some(Exc("AttributeError",
                       <<"'NoneType' object has no attribute 'lower'">>))
         ELSE None

\* str(e) of what lines 163-164 and 171-172 raise on the first route;
\* <<>> if they raise nothing
FirstLegError(routes) ==
    IF ~routes[1].has_legs THEN KeyError("legs").text
    ELSE IF routes[1].legs = <<>> THEN <<"list index out of range">>
    ELSE IF routes[1].legs[1].duration = None THEN KeyError("duration").text
    ELSE IF routes[1].legs[1].distance = None THEN KeyError("distance").text
    ELSE <<>>

\* a slip that reports the last leg of the route instead of the first
FirstLeg_Last(routes) == routes[1].legs[Len(routes[1].legs)]

\* data["routes"][0]["legs"][0], lines 163-164
FirstLeg(routes) == routes[1].legs[1]

\* the except branch, lines 174-178
DirectionsFailure(etext) ==
    DirectionsResponse(FALSE, <<"Error getting directions: ">> \o etext, None, None, None)

\* get_directions after the provider answered, lines 147-178
GetDirections(req, o) ==
    LET url == RequestUrl("/directions/json", <<req.destination>>) IN
    IF o.kind \in {"transport", "http_status", "body_not_json"}
    THEN DirectionsFailure(ClientErrorText(o.kind, o.names_url, url))
    ELSE IF o.kind = "no_status" THEN DirectionsFailure(KeyError("status").text)
    ELSE IF o.status # "OK"
         THEN DirectionsResponse(FALSE, <<"Directions API error: ", o.status>>,
                                 None, None, None)
    ELSE IF ~o.has_routes \/ o.routes = <<>>
         THEN DirectionsResponse(FALSE, <<"No routes found">>, None, None, None)
    ELSE IF FirstLegError(o.routes) # <<>>
         THEN DirectionsFailure(FirstLegError(o.routes))
    ELSE DirectionsResponse(TRUE, <<"Directions found">>, Some(o.routes),
                            Some(Val(FirstLeg(o.routes).duration)),
                            Some(Val(FirstLeg(o.routes).distance)))

\* the detail of the HTTPException of main.py lines 137-140
DirectionsErrorDetail(e) == <<"Error getting directions: ">> \o e.text

----------------------------------------------------------------------------
(* Requests a client can send *)

Queries == {"find coffee near Taipei 101", "pizza"}

\* LocationQuery.user_location: absent, or any Dict[str, float]
UserLocations ==
    {None,
     Some(CoordDict({}, 0, 0)),
     Some(CoordDict({"lat"}, Deg(1), 0)),
     Some(CoordDict({"lng"}, 0, Deg(2))),
     Some(CoordDict({"lat", "lng"}, Deg(1), Deg(2)))}

DirectionsRequests ==
    {DirectionsRequest(Val(o), "place_id:pidCafe", m) :
        o \in UserLocations \ {None},
        m \in {Some("DRIVING"), Some("WALKING"), None}}

\* a provider call: which API, and the query text it carries
Call(api, q) == [api |-> api, q |-> q]

----------------------------------------------------------------------------
(* The state machine *)

Init ==
    /\ pc = "idle"
    /\ query = ""
    /\ user_location = None
    /\ extracted_info = None
    /\ llm_reply = None
    /\ extract_branch = "none"
    /\ places_reply = None
    /\ returned_locations = None
    /\ dreq = None
    /\ directions_reply = None
    /\ svc_exc = None
    /\ calls = <<>>
    /\ http_status = 0
    /\ detail = <<>>
    /\ search_response = None
    /\ directions_response = None

\* POST /search arrives; the handler calls extract_location_intent, which
\* posts the chat request and awaits it (main.py 70-73, llm_service.py 41-46)
SearchRequest(q, ul) ==
    /\ pc = "idle"
    /\ pc' = "llm_call"
    /\ query' = q
    /\ user_location' = ul
    /\ calls' = Append(calls, Call("llm", <<q>>))
    /\ UNCHANGED <<extracted_info, llm_reply, extract_branch, places_reply,
                   returned_locations, dreq, directions_reply, svc_exc,
                   http_status, detail, search_response, directions_response>>

\* The chat call ends with outcome o: extract_location_intent returns
\* (llm_service.py 47-78); the handler takes formatted_query and calls
\* search_places, which builds its parameters and sends the text search
\* (main.py 74-81, maps_service.py 16-33).  An exception on the way ends the
\* request with the HTTPException of main.py 111-116.
LLMReply(o) ==
    /\ pc = "llm_call"
    /\ llm_reply' = Some(o)
    /\ extract_branch' = ExtractBranch(o)
    /\ LET info == ExtractLocationIntent(query, o) IN
        /\ extracted_info' = Some(info)
        /\ IF ~HasGet(info)
           THEN /\ pc' = "done"
                /\ http_status' = 500
                /\ detail' = SearchErrorDetail(NoGetError(info))
                /\ UNCHANGED <<svc_exc, calls>>
           ELSE IF SearchPlacesParamsError(user_location) # None
           THEN /\ pc' = "done"
                /\ svc_exc' = SearchPlacesParamsError(user_location)
                /\ http_status' = 500
                /\ detail' = SearchErrorDetail(Val(SearchPlacesParamsError(user_location)))
                /\ UNCHANGED calls
           ELSE /\ pc' = "places_call"
                /\ calls' = Append(calls, Call("places", FormattedQuery(info, query)))
                /\ UNCHANGED <<svc_exc, http_status, detail>>
    /\ UNCHANGED <<query, user_location, places_reply, returned_locations, dreq,
                   directions_reply, search_response, directions_response>>

\* The text search ends with outcome o: search_places returns or raises
\* (maps_service.py 34-79) and the handler builds its response
\* (main.py 83-116).
PlacesReply(o) ==
    /\ pc = "places_call"
    /\ pc' = "done"
    /\ places_reply' = Some(o)
    /\ LET r == SearchPlaces(calls[Len(calls)].q, user_location, o) IN
        /\ svc_exc' = r.exc
        /\ returned_locations' = r.locations
        /\ IF r.exc # None
           THEN /\ http_status' = 500
                /\ detail' = SearchErrorDetail(Val(r.exc))
                /\ UNCHANGED search_response
           ELSE /\ http_status' = 200
                /\ search_response' =
                     Some(LocationResponse(Val(r.locations), Val(extracted_info),
                                           user_location))
                /\ UNCHANGED detail
    /\ UNCHANGED <<query, user_location, extracted_info, llm_reply, extract_branch,
                   dreq, directions_reply, calls, directions_response>>

\* POST /directions arrives; the handler calls get_directions, which builds
\* its parameters and sends the directions request (main.py 124-131,
\* maps_service.py 133-146).  An exception while the parameters are built
\* leaves get_directions and ends the request with the HTTPException of
\* main.py 135-140.
DirectionsCall(req) ==
    /\ pc = "idle"
    /\ dreq' = Some(req)
    /\ IF DirectionsParamsError(req) # None
       THEN /\ pc' = "done"
            /\ svc_exc' = DirectionsParamsError(req)
            /\ http_status' = 500
            /\ detail' = DirectionsErrorDetail(Val(DirectionsParamsError(req)))
            /\ UNCHANGED calls
       ELSE /\ pc' = "directions_call"
            /\ calls' = Append(calls, Call("directions", <<req.destination>>))
            /\ UNCHANGED <<svc_exc, http_status, detail>>
    /\ UNCHANGED <<query, user_location, extracted_info, llm_reply, extract_branch,
                   places_reply, returned_locations, directions_reply,
                   search_response, directions_response>>

\* The directions call ends with outcome o: get_directions returns its
\* DirectionsResponse (maps_service.py 147-178), which the handler returns
\* (main.py 133).
DirectionsReply(o) ==
    /\ pc = "directions_call"
    /\ pc' = "done"
    /\ directions_reply' = Some(o)
    /\ directions_response' = Some(GetDirections(Val(dreq), o))
    /\ http_status' = 200
    /\ UNCHANGED <<query, user_location, extracted_info, llm_reply, extract_branch,
                   places_reply, returned_locations, dreq, svc_exc, calls, detail,
                   search_response>>

Next ==
    \/ \E q \in Queries, ul \in UserLocations : SearchRequest(q, ul)
    \/ \E o \in LLMOutcomes : LLMReply(o)
    \/ \E o \in PlacesOutcomes : PlacesReply(o)
    \/ \E req \in DirectionsRequests : DirectionsCall(req)
    \/ \E o \in DirectionsOutcomes : DirectionsReply(o)

Spec == Init /\ [][Next]_vars

----------------------------------------------------------------------------
(* Properties of the Intent Extractor *)

\* the intent the extractor returned, and the outcome it saw
Intent == Val(extracted_info)
LLMSaw == Val(llm_reply)

\* v is a record (JSON object) with the field f
HasField(v, f) == v.shape = "object" /\ f \in v.names

\* v is the fallback intent for the user query q
IsFallbackFor(v, q) ==
    /\ v.shape = "object"
    /\ v.val["search_term"] = <<q>>
    /\ v.val["location"] = <<"near me">>
    /\ v.val["query_type"] = <<"search">>
    /\ v.val["formatted_query"] = <<q>>
    /\ v.val["error"] # <<>>

\* C1: whatever the outcome of the language-model call, the extractor
\* returns (it never raises) a record that has all four fields search_term,
\* location, query_type and formatted_query.
C1_ReturnsIntentRecord ==
    extract_branch # "none" =>
        /\ IsSome(extracted_info)
        /\ \A f \in RequiredSet : HasField(Intent, f)

\* C2: when the call fails, or the content is not JSON, or the parsed reply
\* lacks one of the four fields, the extractor returns the fallback intent
\* (search_term and formatted_query the user query, location "near me",
\* query_type "search") with an error text.
C2_FallbackWhenDegraded ==
    (/\ IsSome(llm_reply)
     /\ \/ LLMSaw.kind # "content_json"
        \/ \E f \in RequiredSet : ~HasField(LLMSaw.content, f))
    => IsFallbackFor(Intent, query)

\* C3: a reply that is a JSON object with all four fields is returned
\* unchanged and has no error field, and the returned intent has an error
\* field exactly when a fallback return was taken.
C3_ErrorOnlyOnFallback ==
    IsSome(llm_reply) =>
        /\ (/\ LLMSaw.kind = "content_json"
            /\ \A f \in RequiredSet : HasField(LLMSaw.content, f))
           => Intent = LLMSaw.content /\ ~HasField(Intent, "error")
        /\ HasField(Intent, "error")
             <=> extract_branch \in {"json_fallback", "exc_fallback"}

----------------------------------------------------------------------------
(* Properties of Place Search *)

PlacesSaw == Val(places_reply)
Returned == Val(returned_locations)

Min(a, b) == IF a < b THEN a ELSE b

\* the record loc is built from the raw result raw
BuiltFrom(loc, raw) ==
    /\ loc.lat = raw.lat
    /\ loc.lng = raw.lng
    /\ loc.place_id = (IF IsSome(raw.place_id) THEN Val(raw.place_id) ELSE <<>>)
    /\ loc.name = (IF IsSome(raw.name) THEN Val(raw.name) ELSE "Unknown")

\* search_places returned the first min(n, MAX_LOCATIONS_RETURNED) of the n
\* raw results, one record per result, in the provider's order
ReturnedCappedInOrder ==
    /\ IsSome(returned_locations)
    /\ Len(Returned) = Min(Len(PlacesSaw.results), MAX_LOCATIONS_RETURNED)
    /\ \A i \in 1..Len(Returned) : BuiltFrom(Returned[i], PlacesSaw.results[i])

StatusOK == IsSome(places_reply) /\ PlacesSaw.kind = "status" /\ PlacesSaw.status = "OK"

\* C4 as stated: for every reply with status OK carrying n raw results,
\* search_places returns min(n, MAX_LOCATIONS_RETURNED) records, the i-th
\* built from the i-th raw result.
C4_Original == StatusOK => ReturnedCappedInOrder

\* C4 as amended: the same, for a reply whose first
\* min(n, MAX_LOCATIONS_RETURNED) raw results all carry their coordinates;
\* when one of them does not, search_places raises and returns nothing.
C4_CappedInOrder ==
    StatusOK =>
        IF \A i \in 1..Min(Len(PlacesSaw.results), MAX_LOCATIONS_RETURNED) :
               PlacesSaw.results[i].geometry
        THEN ReturnedCappedInOrder
        ELSE returned_locations = None /\ IsSome(svc_exc)

\* a reply with more results than the cap was cut to the cap
C4_Witness ==
    /\ StatusOK
    /\ Len(PlacesSaw.results) > MAX_LOCATIONS_RETURNED
    /\ IsSome(returned_locations)
    /\ Len(Returned) = MAX_LOCATIONS_RETURNED
    /\ Returned[1].lng # Returned[2].lng

\* C5: in what search_places returns, every record has a distance when a
\* user location was supplied (an empty or partial coordinate map included)
\* and no record has one when none was supplied.
C5_DistanceIffSupplied ==
    IsSome(returned_locations) =>
        \A i \in 1..Len(Returned) :
            IsSome(Returned[i].distance) <=> IsSome(user_location)

----------------------------------------------------------------------------
(* Properties of the search handler *)

Resp == Val(search_response)

\* C6: in every SearchResponse, success is false iff locations is empty,
\* and search_radius is set, to the configured radius, only when success is
\* true.
C6_SuccessIffLocations ==
    IsSome(search_response) =>
        /\ ~Resp.success <=> Resp.locations = <<>>
        /\ IsSome(Resp.search_radius) =>
              Resp.success /\ Val(Resp.search_radius) = MAPS_SEARCH_RADIUS

\* both kinds of response are built: here the empty one, for a search that
\* returned no location
C6_Witness ==
    /\ IsSome(search_response)
    /\ ~Resp.success
    /\ Resp.locations = <<>>
    /\ Resp.search_radius = None
    /\ IsSome(returned_locations)

\* the sum of a field over the locations, taken from the last to the first
RECURSIVE SumBackwards(_, _, _)
SumBackwards(locations, field, n) ==
    IF n = 0 THEN 0 ELSE SumBackwards(locations, field, n - 1) + locations[n][field]

\* C7: map_center is the mean of the latitudes and of the longitudes of the
\* returned locations when there is one; otherwise the supplied user
\* location, with success false, when one was supplied; otherwise absent.
C7_MapCenter ==
    IsSome(search_response) =>
        IF Resp.locations # <<>>
        THEN /\ IsSome(Resp.map_center)
             /\ Val(Resp.map_center).keys = {"lat", "lng"}
             /\ Val(Resp.map_center).lat * Len(Resp.locations)
                  = SumBackwards(Resp.locations, "lat", Len(Resp.locations))
             /\ Val(Resp.map_center).lng * Len(Resp.locations)
                  = SumBackwards(Resp.locations, "lng", Len(Resp.locations))
        ELSE IF IsSome(user_location)
        THEN Resp.map_center = user_location /\ ~Resp.success
        ELSE Resp.map_center = None

----------------------------------------------------------------------------
(* Properties of Directions Lookup *)

DResp == Val(directions_response)
DSaw == Val(directions_reply)

\* C8: get_directions never throws: for every DirectionsRequest (a null
\* travel_mode and an origin lacking lat or lng included) and every provider
\* outcome it returns a DirectionsResponse, with success false on a failure.
C8_GetDirectionsNeverThrows ==
    (IsSome(dreq) /\ pc = "done") =>
        /\ svc_exc = None
        /\ IsSome(directions_response)

\* the three rules that do not depend on the shape of the routes
DirectionsFailureRules ==
    /\ (DSaw.kind = "status" /\ DSaw.status # "OK")
          => ~DResp.success /\ Contains(DResp.message, DSaw.status)
    /\ (DSaw.kind = "status" /\ DSaw.status = "OK" /\ DSaw.has_routes
          /\ DSaw.routes = <<>>)
          => ~DResp.success /\ DResp.message = <<"No routes found">>
    /\ DResp.success
          => DSaw.kind = "status" /\ DSaw.status = "OK" /\ DSaw.has_routes
               /\ DSaw.routes # <<>>
    /\ ~DResp.success
          => DResp.routes = None /\ DResp.duration = None /\ DResp.distance = None

\* success, with the texts of the first leg of the first route and the raw
\* routes
SuccessFromFirstLeg ==
    /\ DResp.success
    /\ DResp.routes = Some(DSaw.routes)
    /\ DSaw.routes[1].has_legs
    /\ DSaw.routes[1].legs # <<>>
    /\ DResp.duration = DSaw.routes[1].legs[1].duration
    /\ DResp.distance = DSaw.routes[1].legs[1].distance
    /\ IsSome(DResp.duration) /\ IsSome(DResp.distance)

HasRoute == DSaw.kind = "status" /\ DSaw.status = "OK" /\ DSaw.has_routes
              /\ DSaw.routes # <<>>

\* the first route has a first leg with a duration text and a distance text
FirstLegComplete ==
    /\ DSaw.routes[1].has_legs
    /\ DSaw.routes[1].legs # <<>>
    /\ IsSome(DSaw.routes[1].legs[1].duration)
    /\ IsSome(DSaw.routes[1].legs[1].distance)

\* C9 as stated: a status other than OK gives success false and a message
\* with the status; OK with no route gives success false and "No routes
\* found"; OK with at least one route gives success true with the first
\* leg's texts and the raw routes; success is true in no other case and a
\* failure carries no routes, duration or distance.
C9_Original ==
    IsSome(directions_response) =>
        /\ DirectionsFailureRules
        /\ HasRoute => SuccessFromFirstLeg

\* C9 as amended: the same, where OK with at least one route gives success
\* true only if the first route has a first leg with its duration and
\* distance texts, and success false otherwise.
C9_Classification ==
    IsSome(directions_response) =>
        /\ DirectionsFailureRules
        /\ (HasRoute /\ FirstLegComplete) => SuccessFromFirstLeg
        /\ (HasRoute /\ ~FirstLegComplete) => ~DResp.success

\* a success whose first route has two legs, among two routes
C9_Witness ==
    /\ IsSome(directions_response)
    /\ DResp.success
    /\ Len(DSaw.routes) = 2
    /\ Len(DSaw.routes[1].legs) = 2
    /\ DResp.duration = Some("9 mins")

----------------------------------------------------------------------------
(* Secrecy of the provider key *)

\* C10: no message returned to a caller contains the mapping provider's
\* API key: neither the detail of the search endpoint's internal error nor
\* the message of a DirectionsResponse.
C10_NoKeyInMessages ==
    /\ ~Contains(detail, GOOGLE_MAPS_API_KEY)
    /\ IsSome(directions_response) => ~Contains(DResp.message, GOOGLE_MAPS_API_KEY)

----------------------------------------------------------------------------
(* Failure kinds and provider calls of a search request *)

\* the request in hand is a search request that has ended
SearchEnded == pc = "done" /\ dreq = None

\* the text search failed: the client raised, or the reply has no status or
\* a status other than OK, or one of the results within the cap is malformed
PlacesFailed ==
    /\ IsSome(places_reply)
    /\ \/ PlacesSaw.kind # "status"
       \/ PlacesSaw.status # "OK"
       \/ \E i \in 1..Min(Len(PlacesSaw.results), MAX_LOCATIONS_RETURNED) :
              ~PlacesSaw.results[i].geometry

\* C11: a search request ends with a success=false SearchResponse only when
\* Place Search returned normally with zero locations, and every exception
\* of the Intent Extractor or of Place Search (a status other than OK, such
\* as the zero-results status, a transport failure, a malformed result) ends
\* with the internal error (HTTP 500) and never with a SearchResponse.
C11_FailureKindsDistinct ==
    /\ (IsSome(search_response) /\ ~Resp.success)
          => /\ http_status = 200
             /\ svc_exc = None
             /\ returned_locations = Some(<<>>)
             /\ ~PlacesFailed
    /\ (SearchEnded /\ (IsSome(svc_exc) \/ PlacesFailed))
          => /\ http_status = 500
             /\ search_response = None
             /\ detail # <<>>

\* the provider's zero-results status ended the request with the internal
\* error
C11_Witness ==
    /\ SearchEnded
    /\ IsSome(places_reply)
    /\ PlacesSaw.kind = "status"
    /\ PlacesSaw.status = "ZERO_RESULTS"
    /\ http_status = 500
    /\ search_response = None

\* the query text the place search is to carry: the intent's formatted_query
\* field, which is the raw user query when the extraction was degraded
ExpectedPlacesQuery ==
    IF extract_branch = "returned" /\ Intent.shape = "object"
    THEN Intent.val["formatted_query"]
    ELSE <<query>>

\* C12: the provider calls of a search request are exactly one
\* language-model call followed by exactly one place-search call: whatever
\* the language-model outcome the place search is issued, only after the
\* extractor returned, with the extractor's formatted_query, and no call is
\* issued a second time.
C12_OneCallEach ==
    dreq = None =>
        /\ pc = "llm_call" => calls = <<Call("llm", <<query>>)>>
        /\ IsSome(extracted_info)
              => calls = <<Call("llm", <<query>>), Call("places", ExpectedPlacesQuery)>>
        /\ (\E i \in 1..Len(calls) : calls[i].api = "places") => IsSome(extracted_info)

====
